---- MODULE Spec2Model ----
(***************************************************************************)
(* Model of snake.js: the game loop of playGame (interval tick handler,    *)
(* keypress handler, end-of-game prompt and save) and the high-score store *)
(* (loadHighScores, saveHighScore, showHighScores, resetHighScores).       *)
(*                                                                         *)
(* The interval callback of playGame uses await; it is read as the async   *)
(* function it is meant to be: its collision branch suspends at the prompt *)
(* and at the two file operations of saveHighScore.                        *)
(*                                                                         *)
(* The date field of a high-score entry is written and printed but never   *)
(* read by any decision of the program; entries are modelled as            *)
(* [name, score].                                                          *)
(***************************************************************************)
EXTENDS Integers, Sequences, FiniteSets, TLC

(* Bounds.  The grid of the program is 10 x 10 (snake.js:11); the model    *)
(* keeps the program parametric in the side of the grid and checks a small *)
(* grid, with the snake starting on the middle cell as in the program.     *)
GRID_SIZE == 3
MaxLen == 4
MaxScore == 1
MaxSaves == 6
MaxFoodLen == 8

Names == {"Player", "Ann"}

VARIABLES
  snake,          \* playGame: snake, head first
  direction,      \* playGame: direction
  lastDirection,  \* playGame: lastDirection
  food,           \* playGame: food
  score,          \* playGame: score
  gameLoop,       \* TRUE while the interval timer gameLoop is armed
  rawMode,        \* process.stdin raw mode
  pc,             \* position of the collision branch of the tick callback
  exited,         \* process.exit() was called
  name,           \* answer of the prompt, argument of saveHighScore
  highScores,     \* saveHighScore: local highScores between load and write
  file,           \* content of HIGHSCORE_FILE
  result,         \* value returned by the last store operation
  raised,         \* TRUE when the last store operation threw
  saved,          \* history: scores handed to saveHighScore since the store was last empty
  tracked,        \* history: the store started empty or was reset
  tickDir,        \* history: direction the last tick moved by
  event,          \* history: the handler that ran last
  lastKey,        \* history: the key the keypress listener received last, since the last tick
  before,         \* history: kind and length of the file before the last save or reset
  conc            \* two saveHighScore calls of two processes on one file

vars == <<snake, direction, lastDirection, food, score, gameLoop, rawMode, pc,
          exited, name, highScores, file, result, raised, saved, tracked,
          tickDir, event, lastKey, before, conc>>

gameVars == <<snake, direction, lastDirection, gameLoop, rawMode, pc, exited,
              name, highScores, tickDir, lastKey>>

(***************************************************************************)
(* Grid and geometry                                                       *)
(***************************************************************************)
Cells == [row : 0..(GRID_SIZE - 1), col : 0..(GRID_SIZE - 1)]

INITIAL_SNAKE == << [row |-> GRID_SIZE \div 2, col |-> GRID_SIZE \div 2] >>

DirNames == {"up", "down", "left", "right"}

DIRECTIONS ==
  [d \in DirNames |->
     CASE d = "up"    -> [row |-> -1, col |-> 0]
       [] d = "down"  -> [row |-> 1, col |-> 0]
       [] d = "left"  -> [row |-> 0, col |-> -1]
       [] d = "right" -> [row |-> 0, col |-> 1]]

\* snake.some(segment => segment.row === pos.row && segment.col === pos.col)
Some(s, pos) == \E i \in 1..Len(s) : s[i].row = pos.row /\ s[i].col = pos.col

\* isCollision without the test against the body.
isCollisionWallsOnly(pos, s) ==
  \/ pos.row < 0
  \/ pos.row >= GRID_SIZE
  \/ pos.col < 0
  \/ pos.col >= GRID_SIZE

\* isCollision that spares the last cell of the body.
isCollisionSparesTail(pos, s) ==
  \/ pos.row < 0
  \/ pos.row >= GRID_SIZE
  \/ pos.col < 0
  \/ pos.col >= GRID_SIZE
  \/ Some(SubSeq(s, 1, Len(s) - 1), pos)

\* isCollision with the upper bounds off by one.
isCollisionOffByOne(pos, s) ==
  \/ pos.row < 0
  \/ pos.row > GRID_SIZE
  \/ pos.col < 0
  \/ pos.col > GRID_SIZE
  \/ Some(s, pos)

isCollision(pos, s) ==
  \/ pos.row < 0
  \/ pos.row >= GRID_SIZE
  \/ pos.col < 0
  \/ pos.col >= GRID_SIZE
  \/ Some(s, pos)

\* generateFood returning its first sample, without the rejection loop.
generateFoodFirstSample(s) == Cells

\* The results the rejection loop of generateFood can return: the sampled
\* cells on which the loop condition is false.  On a full board the set is
\* empty: the loop never ends.
generateFood(s) == {c \in Cells : ~Some(s, c)}

isOppositeDirection(dir1, dir2) ==
  \/ (dir1 = "up" /\ dir2 = "down")
  \/ (dir1 = "down" /\ dir2 = "up")
  \/ (dir1 = "left" /\ dir2 = "right")
  \/ (dir1 = "right" /\ dir2 = "left")

Front(s) == SubSeq(s, 1, Len(s) - 1)

(***************************************************************************)
(* High-score store                                                        *)
(***************************************************************************)
\* Content of HIGHSCORE_FILE: no file, text that is not JSON, the JSON text
\* null, the JSON text {}, or a JSON array of entries.
FileAbsent == [kind |-> "absent", table |-> << >>]
FileGarbage == [kind |-> "garbage", table |-> << >>]
FileNull == [kind |-> "null", table |-> << >>]
FileObject == [kind |-> "object", table |-> << >>]
FileArray(t) == [kind |-> "array", table |-> t]

InitFiles == {FileAbsent, FileGarbage, FileNull, FileObject, FileArray(<< >>)}

NoResult == [kind |-> "none", table |-> << >>]

\* fs.readFile throws on a missing file, JSON.parse throws on text that is
\* not JSON; both land in the catch, which returns [].  Any other JSON value
\* is returned as parsed.
loadHighScores(f) ==
  IF f.kind \in {"absent", "garbage"}
  THEN [kind |-> "array", table |-> << >>]
  ELSE [kind |-> f.kind, table |-> f.table]

\* Array.prototype.sort with (a, b) => b.score - a.score: a stable sort,
\* descending by score.
RECURSIVE InsertDesc(_, _)
InsertDesc(sorted, e) ==
  IF sorted = << >> THEN << e >>
  ELSE IF Head(sorted).score >= e.score
       THEN << Head(sorted) >> \o InsertDesc(Tail(sorted), e)
       ELSE << e >> \o sorted

RECURSIVE SortDesc(_)
SortDesc(t) ==
  IF t = << >> THEN << >>
  ELSE InsertDesc(SortDesc(Front(t)), t[Len(t)])

\* highScores.splice(5)
Splice5(t) == IF Len(t) > 5 THEN SubSeq(t, 1, 5) ELSE t

\* push, sort and splice of saveHighScore throw a TypeError on a value that
\* is not an array.
SaveThrows(v) == v.kind # "array"

\* saveHighScore without the sort.
PushedUnsorted(v, sc, nm) == Splice5(Append(v.table, [name |-> nm, score |-> sc]))

\* saveHighScore, lines 33-35: the table handed to writeFile.
Pushed(v, sc, nm) == Splice5(SortDesc(Append(v.table, [name |-> nm, score |-> sc])))

\* showHighScores: null.length throws; {}.length is undefined.
ShowThrows(v) == v.kind = "null"

Shown(v) == IF v.kind = "array" /\ Len(v.table) # 0
            THEN [kind |-> "listing", table |-> v.table]
            ELSE [kind |-> "No high scores yet.", table |-> << >>]

(***************************************************************************)
(* playGame                                                                *)
(***************************************************************************)
\* Key events of readline: (str, key.name).
Keys ==
  {[name |-> "up", str |-> "esc"], [name |-> "down", str |-> "esc"],
   [name |-> "left", str |-> "esc"], [name |-> "right", str |-> "esc"],
   [name |-> "w", str |-> "w"], [name |-> "s", str |-> "s"],
   [name |-> "a", str |-> "a"], [name |-> "d", str |-> "d"],
   [name |-> "q", str |-> "q"], [name |-> "x", str |-> "x"]}

NoKey == [name |-> "none", str |-> "none"]

newDirection(key) ==
  IF key.name = "up" \/ key.str = "w" THEN "up"
  ELSE IF key.name = "down" \/ key.str = "s" THEN "down"
  ELSE IF key.name = "left" \/ key.str = "a" THEN "left"
  ELSE IF key.name = "right" \/ key.str = "d" THEN "right"
  ELSE "null"

\* New head whose column takes the row delta.
NewHeadRowDeltaTwice(s, d) == [row |-> s[1].row + DIRECTIONS[d].row,
                              col |-> s[1].col + DIRECTIONS[d].row]

NewHead(s, d) == [row |-> s[1].row + DIRECTIONS[d].row,
                  col |-> s[1].col + DIRECTIONS[d].col]

storeHistory == <<result, saved, tracked, before, conc>>

NoFile == [kind |-> "none", len |-> 0]

Describe(f) == [kind |-> f.kind, len |-> Len(f.table)]

NoCalls == [file0 |-> FileAbsent, calls |-> << >>]

InitGame ==
  /\ snake = INITIAL_SNAKE
  /\ direction = "right"
  /\ food \in generateFood(snake)
  /\ score = 0
  /\ lastDirection = direction
  /\ gameLoop = TRUE
  /\ rawMode = TRUE
  /\ pc = "idle"
  /\ exited = FALSE
  /\ name = "undefined"
  /\ highScores = << >>
  /\ tickDir = "none"
  /\ lastKey = NoKey

Init ==
  /\ InitGame
  /\ file \in InitFiles
  /\ result = NoResult
  /\ raised = FALSE
  /\ saved = << >>
  /\ tracked = (file \in {FileAbsent, FileArray(<< >>)})
  /\ event = "init"
  /\ before = NoFile
  /\ conc = NoCalls

\* Collision branch that leaves the interval timer armed.
CollideKeepTimer ==
  /\ gameLoop' = gameLoop
  /\ rawMode' = FALSE
  /\ pc' = "prompt"
  /\ UNCHANGED <<snake, food, score>>

\* Collision branch up to the first await, lines 125-128.
Collide ==
  /\ gameLoop' = FALSE
  /\ rawMode' = FALSE
  /\ pc' = "prompt"
  /\ UNCHANGED <<snake, food, score>>

\* Food branch that does not count the food.
EatNoScore(head) ==
  /\ snake' = << head >> \o snake
  /\ score' = score
  /\ IF generateFood(<< head >> \o snake) = {}
     THEN pc' = "spin" /\ food' = food
     ELSE pc' = pc /\ food' \in generateFood(<< head >> \o snake)
  /\ UNCHANGED <<gameLoop, rawMode>>

\* Food branch, lines 140-143.  generateFood does not return on a full
\* board: the callback spins and nothing else runs.
Eat(head) ==
  /\ snake' = << head >> \o snake
  /\ score' = score + 1
  /\ IF generateFood(<< head >> \o snake) = {}
     THEN pc' = "spin" /\ food' = food
     ELSE pc' = pc /\ food' \in generateFood(<< head >> \o snake)
  /\ UNCHANGED <<gameLoop, rawMode>>

\* Plain move that keeps the tail.
MoveKeepTail(head) ==
  /\ snake' = << head >> \o snake
  /\ UNCHANGED <<food, score, gameLoop, rawMode, pc>>

\* Plain move, lines 140 and 145.
Move(head) ==
  /\ snake' = Front(<< head >> \o snake)
  /\ UNCHANGED <<food, score, gameLoop, rawMode, pc>>

\* The interval callback, lines 119-149.
Tick ==
  /\ gameLoop
  /\ ~exited
  /\ pc # "spin"
  /\ LET head == NewHead(snake, direction) IN
       IF isCollision(head, Tail(snake))
       THEN Collide
       ELSE IF head.row = food.row /\ head.col = food.col
            THEN Eat(head)
            ELSE Move(head)
  /\ tickDir' = direction
  /\ event' = "tick"
  /\ UNCHANGED <<direction, lastDirection, exited, name, highScores, file,
                 raised, storeHistory>>

\* Quit branch without process.exit().
QuitNoExit ==
  /\ gameLoop' = FALSE
  /\ rawMode' = FALSE
  /\ exited' = exited
  /\ UNCHANGED <<direction, lastDirection>>

\* Quit branch of the keypress listener, lines 153-155.
Quit ==
  /\ gameLoop' = FALSE
  /\ rawMode' = FALSE
  /\ exited' = TRUE
  /\ UNCHANGED <<direction, lastDirection>>

\* Direction branch that leaves lastDirection as it was.
TurnForgetsLast(key) ==
  /\ IF newDirection(key) # "null"
        /\ ~isOppositeDirection(newDirection(key), lastDirection)
     THEN /\ direction' = newDirection(key)
          /\ lastDirection' = lastDirection
     ELSE UNCHANGED <<direction, lastDirection>>
  /\ UNCHANGED <<gameLoop, rawMode, exited>>

\* Direction branch that records the key in lastDirection only.
TurnNoLatch(key) ==
  /\ IF newDirection(key) # "null"
        /\ ~isOppositeDirection(newDirection(key), lastDirection)
     THEN /\ direction' = direction
          /\ lastDirection' = newDirection(key)
     ELSE UNCHANGED <<direction, lastDirection>>
  /\ UNCHANGED <<gameLoop, rawMode, exited>>

\* Direction branch of the keypress listener, lines 157-164.
Turn(key) ==
  /\ IF newDirection(key) # "null"
        /\ ~isOppositeDirection(newDirection(key), lastDirection)
     THEN /\ direction' = newDirection(key)
          /\ lastDirection' = newDirection(key)
     ELSE UNCHANGED <<direction, lastDirection>>
  /\ UNCHANGED <<gameLoop, rawMode, exited>>

\* The keypress listener, lines 151-165.  Keys reach it while stdin flows:
\* during the game and while the prompt reads the name.
Keypress(key) ==
  /\ ~exited
  /\ pc \in {"idle", "prompt"}
  /\ IF key.name = "q" THEN Quit ELSE Turn(key)
  /\ event' = IF key.name = "q" THEN "quit" ELSE "key"
  /\ UNCHANGED <<snake, food, score, pc, name, highScores, file, raised,
                 storeHistory, tickDir>>

\* inquirer.prompt resolves with the name, lines 128-136; saveHighScore is
\* called and suspends in loadHighScores.
PromptAnswer(n) ==
  /\ ~exited
  /\ pc = "prompt"
  /\ name' = n
  /\ pc' = "load"
  /\ event' = "prompt"
  /\ UNCHANGED <<snake, direction, lastDirection, food, score, gameLoop,
                 rawMode, exited, highScores, file, raised, storeHistory,
                 tickDir, lastKey>>

\* saveHighScore resumes after loadHighScores, lines 32-36: push, sort,
\* splice, and the call of writeFile.
SaveLoad ==
  /\ ~exited
  /\ pc = "load"
  /\ LET v == loadHighScores(file) IN
       IF SaveThrows(v)
       THEN /\ raised' = TRUE
            /\ pc' = "rejected"
            /\ UNCHANGED highScores
       ELSE /\ highScores' = Pushed(v, score, name)
            /\ pc' = "write"
            /\ UNCHANGED raised
  /\ event' = "load"
  /\ UNCHANGED <<snake, direction, lastDirection, food, score, gameLoop,
                 rawMode, exited, name, file, storeHistory, tickDir, lastKey>>

\* writeFile completes, line 36; the callback returns, line 137.
SaveWrite ==
  /\ ~exited
  /\ pc = "write"
  /\ file' = FileArray(highScores)
  /\ saved' = Append(saved, score)
  /\ pc' = "returned"
  /\ event' = "write"
  /\ UNCHANGED <<snake, direction, lastDirection, food, score, gameLoop,
                 rawMode, exited, name, highScores, raised, result, tracked,
                 tickDir, lastKey, before, conc>>

\* The snake is followed up to MaxLen cells; the keys are not recorded.
Next ==
  \/ Tick /\ Len(snake') <= MaxLen /\ UNCHANGED lastKey
  \/ \E key \in Keys : Keypress(key) /\ UNCHANGED lastKey
  \/ \E n \in Names : PromptAnswer(n)
  \/ SaveLoad
  \/ SaveWrite

Spec == Init /\ [][Next]_vars

\* The game with the keys recorded, started without a high-score file.
InitKeys == Init /\ file = FileAbsent

NextKeys ==
  \/ Tick /\ Len(snake') <= MaxLen /\ lastKey' = NoKey
  \/ \E key \in Keys : Keypress(key) /\ lastKey' = key
  \/ \E n \in Names : PromptAnswer(n)
  \/ SaveLoad
  \/ SaveWrite

SpecKeys == InitKeys /\ [][NextKeys]_vars

\* The game followed until the snake fills the grid, started without a
\* high-score file; the game is left at its end.
NextFull ==
  \/ Tick /\ UNCHANGED lastKey
  \/ \E key \in Keys : Keypress(key) /\ UNCHANGED lastKey

SpecFull == InitKeys /\ [][NextFull]_vars

(***************************************************************************)
(* The store operations run one after another, as the commands highscore   *)
(* and reset and the saves of finished games do.                           *)
(***************************************************************************)
InitStore ==
  /\ InitGame
  /\ food = [row |-> 0, col |-> 0]
  /\ file \in InitFiles
  /\ result = NoResult
  /\ raised = FALSE
  /\ saved = << >>
  /\ tracked = (file \in {FileAbsent, FileArray(<< >>)})
  /\ event = "init"
  /\ before = NoFile
  /\ conc = NoCalls

\* loadHighScores, lines 21-28; the try/catch leaves nothing to throw.
StoreLoad ==
  /\ result' = loadHighScores(file)
  /\ raised' = FALSE
  /\ event' = "load"
  /\ UNCHANGED <<gameVars, food, score, file, saved, tracked, before, conc>>

\* saveHighScore, lines 31-37.
StoreSave(sc, nm) ==
  /\ Len(saved) < MaxSaves
  /\ LET v == loadHighScores(file) IN
       IF SaveThrows(v)
       THEN /\ raised' = TRUE
            /\ UNCHANGED <<file, saved>>
       ELSE /\ file' = FileArray(Pushed(v, sc, nm))
            /\ saved' = Append(saved, sc)
            /\ raised' = FALSE
  /\ result' = NoResult
  /\ event' = "save"
  /\ before' = Describe(file)
  /\ UNCHANGED <<gameVars, food, score, tracked, conc>>

\* showHighScores, lines 40-50.
StoreShow ==
  /\ LET v == loadHighScores(file) IN
       IF ShowThrows(v)
       THEN raised' = TRUE /\ result' = NoResult
       ELSE raised' = FALSE /\ result' = Shown(v)
  /\ event' = "show"
  /\ UNCHANGED <<gameVars, food, score, file, saved, tracked, before, conc>>

\* resetHighScores that rewrites the file only when it holds a table.
StoreResetTablesOnly ==
  /\ file' = IF file.kind = "array" THEN FileArray(<< >>) ELSE file
  /\ saved' = << >>
  /\ tracked' = TRUE
  /\ raised' = FALSE
  /\ result' = NoResult
  /\ event' = "reset"
  /\ before' = Describe(file)
  /\ UNCHANGED <<gameVars, food, score, conc>>

\* resetHighScores, lines 53-56.
StoreReset ==
  /\ file' = FileArray(<< >>)
  /\ saved' = << >>
  /\ tracked' = TRUE
  /\ raised' = FALSE
  /\ result' = NoResult
  /\ event' = "reset"
  /\ before' = Describe(file)
  /\ UNCHANGED <<gameVars, food, score, conc>>

NextStore ==
  \/ StoreLoad
  \/ \E sc \in 0..MaxScore, nm \in Names : StoreSave(sc, nm)
  \/ StoreShow
  \/ StoreReset

SpecStore == InitStore /\ [][NextStore]_vars

(***************************************************************************)
(* Two processes end a game at about the same time: each calls             *)
(* saveHighScore on the same HIGHSCORE_FILE.  A call reads the file        *)
(* (line 32), builds its table in its own memory (lines 33-35) and writes  *)
(* the file (line 36); nothing orders the file operations of the two       *)
(* processes.                                                              *)
(***************************************************************************)
Procs == {1, 2}

ConcFiles ==
  {FileAbsent, FileArray(<< >>),
   FileArray(<< [name |-> "Ann", score |-> 2], [name |-> "Player", score |-> 1],
                [name |-> "Ann", score |-> 1], [name |-> "Player", score |-> 0],
                [name |-> "Ann", score |-> 0] >>)}

Calls == [pc : {"called"}, score : 0..MaxScore, name : Names,
          highScores : {<< >>}]

InitConc ==
  /\ InitGame
  /\ food = [row |-> 0, col |-> 0]
  /\ file \in ConcFiles
  /\ result = NoResult
  /\ raised = FALSE
  /\ saved = << >>
  /\ tracked = FALSE
  /\ event = "init"
  /\ before = NoFile
  /\ \E c1, c2 \in Calls : conc = [file0 |-> file, calls |-> << c1, c2 >>]

\* loadHighScores of the call of process p returns; push, sort, splice.
ConcLoad(p) ==
  /\ conc.calls[p].pc = "called"
  /\ ~SaveThrows(loadHighScores(file))
  /\ conc' = [conc EXCEPT
                !.calls[p].pc = "loaded",
                !.calls[p].highScores =
                   Pushed(loadHighScores(file), conc.calls[p].score,
                          conc.calls[p].name)]
  /\ event' = "load"
  /\ UNCHANGED <<gameVars, food, score, file, result, raised, saved, tracked,
                 before>>

\* writeFile of the call of process p completes.
ConcWrite(p) ==
  /\ conc.calls[p].pc = "loaded"
  /\ file' = FileArray(conc.calls[p].highScores)
  /\ conc' = [conc EXCEPT !.calls[p].pc = "written"]
  /\ event' = "write"
  /\ UNCHANGED <<gameVars, food, score, result, raised, saved, tracked,
                 before>>

NextConc ==
  \/ \E p \in Procs : ConcLoad(p)
  \/ \E p \in Procs : ConcWrite(p)

SpecConc == InitConc /\ [][NextConc]_vars

(***************************************************************************)
(* generateFood, one sample of its loop per step, called on a snake that   *)
(* leaves at least one cell of the grid free.                              *)
(***************************************************************************)
Min(a, b) == IF a < b THEN a ELSE b

Adjacent(a, b) ==
  \/ a.row = b.row /\ (a.col = b.col + 1 \/ b.col = a.col + 1)
  \/ a.col = b.col /\ (a.row = b.row + 1 \/ b.row = a.row + 1)

\* The snakes of n cells: the paths of adjacent, distinct cells of the grid.
RECURSIVE SnakesOfLen(_)
SnakesOfLen(n) ==
  IF n = 1 THEN {<< c >> : c \in Cells}
  ELSE {<< x[1] >> \o x[2] :
          x \in {y \in Cells \X SnakesOfLen(n - 1) :
                   Adjacent(y[1], y[2][1]) /\ ~Some(y[2], y[1])}}

FoodSnakes ==
  UNION {SnakesOfLen(n) : n \in 1..Min(MaxFoodLen, GRID_SIZE * GRID_SIZE - 1)}

\* Samples that leave out the last row and the last column.
RandomCellsShort == [row : 0..(GRID_SIZE - 2), col : 0..(GRID_SIZE - 2)]

\* The cells Math.floor(Math.random() * GRID_SIZE) can give, lines 62-65.
RandomCells == [row : 0..(GRID_SIZE - 1), col : 0..(GRID_SIZE - 1)]

NoFood == [row |-> -1, col |-> -1]

InitFood ==
  /\ snake \in FoodSnakes
  /\ food = NoFood
  /\ pc = "sampling"
  /\ direction = "right"
  /\ lastDirection = "right"
  /\ score = Len(snake) - 1
  /\ gameLoop = TRUE
  /\ rawMode = TRUE
  /\ exited = FALSE
  /\ name = "undefined"
  /\ highScores = << >>
  /\ tickDir = "none"
  /\ lastKey = NoKey
  /\ file = FileAbsent
  /\ result = NoResult
  /\ raised = FALSE
  /\ saved = << >>
  /\ tracked = TRUE
  /\ event = "init"
  /\ before = NoFile
  /\ conc = NoCalls

\* One round of the do-while loop, lines 61-66: sample a cell, leave the
\* loop when no segment of the snake is on it.
Sample(c) ==
  /\ pc = "sampling"
  /\ c \in RandomCells
  /\ food' = c
  /\ pc' = IF Some(snake, c) THEN "sampling" ELSE "generated"
  /\ event' = IF Some(snake, c) THEN "rejected" ELSE "accepted"
  /\ UNCHANGED <<snake, direction, lastDirection, score, gameLoop, rawMode,
                 exited, name, highScores, tickDir, lastKey, file, raised,
                 storeHistory>>

NextFood == \E c \in Cells : Sample(c)

\* Fair sampling: a cell that can be sampled is sampled eventually.
SpecFood ==
  /\ InitFood
  /\ [][NextFood]_vars
  /\ \A c \in Cells : WF_vars(Sample(c))

(***************************************************************************)
(* Properties                                                              *)
(***************************************************************************)
Running == pc = "idle" /\ gameLoop /\ ~exited

GameOver == pc \in {"prompt", "load", "write", "returned", "rejected"}

Persisted(sc) == \E i \in 1..Len(file.table) : file.table[i].score = sc

\* C1: the direction a tick moves by is never the exact opposite of the
\* direction the previous tick moved by, and a snake of two or more cells
\* never ends the game by moving its head back into its second cell.
C1_NoReversalBetweenTicks ==
  /\ [][(event' = "tick" /\ tickDir # "none")
          => ~isOppositeDirection(tickDir', tickDir)]_vars
  /\ [](~(GameOver /\ Len(snake) >= 2 /\ NewHead(snake, tickDir) = snake[2]))

\* C2: after a completed tick while the game is running, no two cells of
\* the snake have the same position.
C2_NoDuplicateCells ==
  Running =>
    \A i, j \in 1..Len(snake) :
      i # j => ~(snake[i].row = snake[j].row /\ snake[i].col = snake[j].col)

\* A running snake of four cells whose head is next to its tail after a tick.
C2_Witness ==
  /\ Running
  /\ event = "tick"
  /\ Len(snake) = 4
  /\ \E d \in DirNames : NewHead(snake, d) = snake[4]

\* C3: at game start and after every completed tick the food cell differs
\* from every cell of the snake.
C3_FoodNotOnSnake ==
  pc # "spin" =>
    \A i \in 1..Len(snake) :
      ~(snake[i].row = food.row /\ snake[i].col = food.col)

\* A tick has just eaten and the food was regenerated next to a snake of
\* three cells.
C3_Witness ==
  /\ event = "tick"
  /\ Len(snake) = 3
  /\ score = 2
  /\ snake[1] # INITIAL_SNAKE[1]
  /\ \E d \in DirNames : NewHead(snake, d) = food

\* C4: after a collision the process does not exit before an entry with
\* the final score is in the high-score file.
C4_NoExitBeforeSave ==
  (exited /\ GameOver) => (pc = "returned" /\ Persisted(score))

\* C5: the timer is stopped when the collision branch starts its I/O, and
\* from then on snake, food and score never change and the game stays over.
C5_GameOverIsTerminal ==
  /\ [](GameOver => ~gameLoop)
  /\ [][GameOver => (GameOver' /\ snake' = snake /\ food' = food
                       /\ score' = score)]_vars

\* The game is over and a key has turned the latched direction since.
C5_Witness ==
  /\ GameOver
  /\ event = "key"
  /\ direction # tickDir
  /\ Len(snake) >= 2

\* C6: a tick that does not end the game puts the new head in front of the
\* whole old snake when the new head is the food cell, and in front of the
\* old snake without its last cell otherwise.
C6_GrowOrShift ==
  [][(event' = "tick" /\ pc' = "idle") =>
       LET h == NewHead(snake, direction) IN
         IF h = food
         THEN snake' = << h >> \o snake /\ Len(snake') = Len(snake) + 1
         ELSE snake' = << h >> \o Front(snake) /\ Len(snake') = Len(snake)]_vars

\* A tick has moved a snake of three cells without eating.
C6_Witness ==
  /\ event = "tick"
  /\ pc = "idle"
  /\ Len(snake) = 3
  /\ \A d \in DirNames : NewHead(snake, d) # food

\* C7: the score is the length of the snake minus one, and no step lowers
\* the score.
C7_ScoreIsLengthMinusOne ==
  /\ [](score = Len(snake) - 1)
  /\ [][score' >= score]_vars

\* A game that ended with a score of two has saved it.
C7_Witness ==
  /\ pc = "returned"
  /\ score = 2
  /\ Persisted(2)

CountIn(seq, v) == Cardinality({i \in 1..Len(seq) : seq[i] = v})

TableScores == [i \in 1..Len(file.table) |-> file.table[i].score]

\* C8: from an empty or reset store, after any sequence of saves the file
\* holds a table sorted descending by score, of at most five entries, whose
\* scores are the five highest of the scores saved (all of them when fewer
\* than five were saved).
C8_TopFiveSorted ==
  tracked =>
    /\ file.kind \in {"absent", "array"}
    /\ \A i, j \in 1..Len(file.table) :
         i < j => file.table[i].score >= file.table[j].score
    /\ Len(file.table) = (IF Len(saved) < 5 THEN Len(saved) ELSE 5)
    /\ \A v \in 0..MaxScore : CountIn(TableScores, v) <= CountIn(saved, v)
    /\ \A v \in 0..MaxScore :
         CountIn(TableScores, v) < CountIn(saved, v)
           => \A i \in 1..Len(file.table) : file.table[i].score >= v

\* Six saves on a reset store, one of them pushed out of a table that holds
\* different scores.
C8_Witness ==
  /\ tracked
  /\ Len(saved) >= 6
  /\ Len(file.table) = 5
  /\ file.table[1].score > file.table[5].score
  /\ saved[Len(saved)] > file.table[5].score

\* C9: on an absent or malformed file loadHighScores returns the empty
\* table, and no store operation throws.
C9_MalformedReadsAsEmpty ==
  file.kind # "array" =>
    /\ ~raised
    /\ event = "load" => result = [kind |-> "array", table |-> << >>]

\* C10: a quit key while the game is running ends the process at once, stops
\* the timer and leaves the high-score file as it was; nothing runs after
\* the exit.
C10_QuitLeavesStore ==
  /\ [][(pc = "idle" /\ event' = "quit")
          => (exited' /\ ~gameLoop' /\ pc' = "idle" /\ file' = file
                /\ snake' = snake /\ score' = score)]_vars
  /\ [][~exited]_vars

\* The player has quit a running game with a snake of two cells.
C10_Witness ==
  /\ exited
  /\ pc = "idle"
  /\ event = "quit"
  /\ Len(snake) >= 2

InGrid(c) == c.row >= 0 /\ c.row < GRID_SIZE /\ c.col >= 0 /\ c.col < GRID_SIZE

Abs(n) == IF n < 0 THEN -n ELSE n

Step(s, d) == [row |-> s[1].row + (IF d = "up" THEN -1 ELSE IF d = "down" THEN 1 ELSE 0),
               col |-> s[1].col + (IF d = "left" THEN -1 ELSE IF d = "right" THEN 1 ELSE 0)]

\* C11: a tick whose new head is the last cell of a snake of two or more
\* cells ends the game and leaves the snake as it was.
C11_TailBiteIsCollision ==
  [][(event' = "tick" /\ Len(snake) >= 2
        /\ Step(snake, direction) = snake[Len(snake)])
       => (pc' = "prompt" /\ ~gameLoop' /\ snake' = snake)]_vars

\* The game has ended on a snake of four cells whose head moved onto its
\* last cell.
C11_Witness ==
  /\ GameOver
  /\ Len(snake) = 4
  /\ Step(snake, tickDir) = snake[4]
  /\ Step(snake, tickDir) # snake[2]

\* C12: a tick whose new head is outside the grid ends the game with the
\* score, the snake and the food it started with.
C12_WallIsCollision ==
  [][(event' = "tick" /\ ~InGrid(Step(snake, direction)))
       => (pc' = "prompt" /\ ~gameLoop' /\ score' = score
             /\ snake' = snake /\ food' = food)]_vars

\* A snake of one cell in the corner (0,0) has moved up: game over, score 0.
C12_Witness ==
  /\ pc = "prompt"
  /\ event = "tick"
  /\ snake = << [row |-> 0, col |-> 0] >>
  /\ tickDir = "up"
  /\ score = 0

\* C19: after a completed tick while the game is running, every snake cell
\* and the food cell are inside the grid and consecutive snake cells differ
\* by one unit in exactly one of row and col.
C19_ConnectedPathInGrid ==
  Running =>
    /\ \A i \in 1..Len(snake) : InGrid(snake[i])
    /\ InGrid(food)
    /\ \A i \in 1..(Len(snake) - 1) :
         Abs(snake[i].row - snake[i + 1].row)
           + Abs(snake[i].col - snake[i + 1].col) = 1

\* A running snake of four cells with a bend, head on the border, after a
\* tick.
C19_Witness ==
  /\ Running
  /\ event = "tick"
  /\ Len(snake) = 4
  /\ snake[1].row # snake[3].row
  /\ snake[1].col # snake[3].col
  /\ snake[1].row = 0

EmptyTable == [kind |-> "array", table |-> << >>]

\* C13: after resetHighScores the file holds the empty table whatever it
\* held before, a load that follows returns the empty table, and a second
\* reset leaves the file as the first one left it.
C13_ResetGivesEmptyTable ==
  /\ [](event = "reset" => (file = FileArray(<< >>) /\ ~raised))
  /\ [][(event = "reset" /\ event' = "load") => result' = EmptyTable]_vars
  /\ [][(event = "reset" /\ event' = "reset") => file' = file]_vars

\* A load has returned the empty table after a reset of a file that held
\* the JSON text null.
C13_Witness ==
  /\ event = "load"
  /\ before.kind = "null"
  /\ file = FileArray(<< >>)
  /\ result = EmptyTable

Reverse(d1, d2) ==
  /\ DIRECTIONS[d1].row + DIRECTIONS[d2].row = 0
  /\ DIRECTIONS[d1].col + DIRECTIONS[d2].col = 0

\* C14: a key other than quit that maps to a direction d which is not the
\* reverse of lastDirection sets direction and lastDirection to d; a key
\* that maps to the reverse of lastDirection, or to no direction, leaves
\* both as they were; no such key changes snake, food or score.
C14_KeypressIsFilter ==
  [][event' = "key" =>
       LET d == newDirection(lastKey') IN
         /\ IF d \in DirNames /\ ~Reverse(d, lastDirection)
            THEN direction' = d /\ lastDirection' = d
            ELSE direction' = direction /\ lastDirection' = lastDirection
         /\ snake' = snake /\ food' = food /\ score' = score]_vars

\* The key a has been pressed while a snake of two cells was heading
\* right, and the direction is still right.
C14_Witness ==
  /\ event = "key"
  /\ lastKey = [name |-> "a", str |-> "a"]
  /\ direction = "right"
  /\ lastDirection = "right"
  /\ tickDir = "right"
  /\ Len(snake) = 2
  /\ pc = "idle"

\* C15: the latched direction is the direction accepted last; a tick moves
\* the head by one step of it, whatever was accepted before it since the
\* previous tick, and a key moves nothing.
C15_MostRecentWins ==
  /\ [](direction = lastDirection)
  /\ [][event' = "tick" =>
          /\ tickDir' = lastDirection
          /\ pc' = "idle" => (snake'[1] = Step(snake, lastDirection)
                                /\ Tail(snake') \in {snake, Front(snake)})
          /\ pc' # "idle" => snake' = snake]_vars
  /\ [][event' = "key" => (snake' = snake /\ tickDir' = tickDir)]_vars

\* A tick has moved a snake of two cells left, in a game that started
\* heading right.
C15_Witness ==
  /\ event = "tick"
  /\ pc = "idle"
  /\ tickDir = "left"
  /\ Len(snake) = 2
  /\ snake[2].col = snake[1].col + 1

\* The file after the call a and then the call b, run one after the other
\* on the file f.
OneAfterTheOther(f, a, b) ==
  LET first == FileArray(Pushed(loadHighScores(f), a.score, a.name))
  IN FileArray(Pushed(loadHighScores(first), b.score, b.name))

\* C16: when two saves have finished, the file holds the table that the
\* two saves run one after the other, in one of the two orders, leave.
C16_SavesAreAtomic ==
  (conc.calls # << >> /\ \A p \in Procs : conc.calls[p].pc = "written") =>
    \/ file = OneAfterTheOther(conc.file0, conc.calls[1], conc.calls[2])
    \/ file = OneAfterTheOther(conc.file0, conc.calls[2], conc.calls[1])

\* C17: on a snake that leaves a cell free, under fair sampling, the loop
\* of generateFood ends, and the cell it returns is inside the grid and
\* not on the snake.
C17_GenerateFoodTerminates ==
  /\ <>(pc = "generated")
  /\ [](pc = "generated" => (InGrid(food) /\ ~Some(snake, food)))

\* generateFood has returned the only free cell of a board that holds a
\* snake of eight cells or more.
C17_Witness ==
  /\ pc = "generated"
  /\ event = "accepted"
  /\ Len(snake) >= 8
  /\ ~Some(snake, food)

\* C18: a tick that eats leaves a snake of fewer than GRID_SIZE x GRID_SIZE
\* cells, so its generateFood call has a free cell and the tick completes.
C18_BoardNeverFull ==
  /\ Len(snake) < GRID_SIZE * GRID_SIZE
  /\ pc # "spin"

====
